---- MODULE Spec2Model ----
(***************************************************************************)
(* Model of the kubeconfig synchronisation of vscode-gitops-tools          *)
(* (src/cli/kubernetes/kubernetesConfig.ts) and of the namespace node's    *)
(* aggregate label (src/ui/treeviews/nodes/namespaceNode.ts).              *)
(*                                                                         *)
(* syncKubeConfig is an async function on a single-threaded event loop: it *)
(* runs atomically between its awaits.  Each invocation is a call slot     *)
(* with a position pc:                                                     *)
(*   idle    - not running                                                 *)
(*   fetch   - suspended at  await invokeKubectlCommand('config view')     *)
(*   path    - suspended at  await loadKubeConfigPath()  (failure branch)  *)
(*   changed - suspended at  await kubeconfigChanged(...)                  *)
(***************************************************************************)
EXTENDS Integers, Sequences, FiniteSets, TLC

VARIABLES
    pc,                 \* call slot -> position of that syncKubeConfig invocation
    force,              \* call slot -> its forceReloadResourceKinds argument while it is
                        \* still to be read (FALSE once the call is past its last read)
    kubeConfigState,    \* the exported module variable kubeConfigState
    kubeConfig,         \* the exported process-wide k8s.KubeConfig object
    clusterUnreachable, \* VS Code context ContextId.ClusterUnreachable
    gitOpsNotEnabled,   \* VS Code context ContextId.CurrentClusterGitOpsNotEnabled
    stateWrites,        \* values assigned to kubeConfigState by the latest step, in order
    reloads,            \* reload functions called by the latest step, with the kubeConfig they see
    errorShown,         \* window.showErrorMessage was called by the latest step
    resumed,            \* <<[result, force]>> when the latest step resumed a call from its CLI
                        \* fetch: the result it got and its forceReloadResourceKinds; else <<>>
    children,           \* NamespaceNode.children
    collapsibleState,   \* NamespaceNode.collapsibleState
    nodeName,           \* NamespaceNode.resource.metadata.name
    icon,               \* icon set by setIcon
    label,              \* NamespaceNode.label
    labelled,           \* "no" before updateLabel ran, else "withIcons" / "withoutIcons"
    object,             \* the KubernetesObject handed to makeTreeNode
    made,               \* outcome of makeTreeNode(object); "pending" before the call
    setContext,         \* the setCurrentContext call: position, argument, whether the CLI was
                        \* invoked, the CLI result it got, its return value
    fetchOrder,         \* call slots suspended on their CLI fetch, in the order they started
    stale,              \* slots of fetchOrder started before a call whose fetch has returned
    fresh,              \* <<o>>: what the fetch of the latest-started call among those whose
                        \* fetch has returned produced: o.failed, else the parsed o.config;
                        \* <<>> before any fetch returned
    staleReturned       \* the latest fetch to return was that of a call in stale

syncVars == <<pc, force, kubeConfigState, kubeConfig, clusterUnreachable,
              gitOpsNotEnabled, stateWrites, reloads, errorShown, resumed,
              fetchOrder, stale, fresh, staleReturned>>
nodeVars == <<children, collapsibleState, nodeName, icon, label, labelled>>
registryVars == <<object, made>>
raceVars == <<fetchOrder, stale, fresh, staleReturned>>
outsideSync == <<nodeVars, registryVars, setContext>>
vars == <<pc, force, kubeConfigState, kubeConfig, clusterUnreachable,
          gitOpsNotEnabled, stateWrites, reloads, errorShown, resumed,
          children, collapsibleState, nodeName, icon, label, labelled,
          object, made, setContext, fetchOrder, stale, fresh, staleReturned>>

----------------------------------------------------------------------------
(* Bounds *)

MaxCalls == 2
MaxChildren == 3

Calls == 1..MaxCalls

ContextNames == {"a", "b"}
ClusterNames == {"k1"}
Preferences == {"p0", "p1"}

----------------------------------------------------------------------------
(* k8s.KubeConfig objects and the text `kubectl config view` prints *)

\* A context entry as it stands in a config document.  An entry without a
\* name is structurally invalid.
ContextEntries == [name : ContextNames \cup {""}, cluster : ClusterNames]

ValidEntry(e) == e.name # ""

\* Entries of one document carry distinct names.
UniqueNames(es) == \A e1 \in es, e2 \in es : e1.name = e2.name => e1 = e2

\* The documents the CLI may print.
ConfigDocs ==
    { d \in [contexts : SUBSET ContextEntries,
             current_context : ContextNames,
             preferences : Preferences] : UniqueNames(d.contexts) }

EmptyDoc == [contexts |-> {}, current_context |-> "", preferences |-> "p0"]

\* new k8s.KubeConfig()
NewKubeConfig == [contexts |-> {}, currentContext |-> "", preferences |-> "p0"]

\* KubeConfig.loadFromString(text, {onInvalidEntry: ActionOnInvalid.FILTER}):
\* invalid entries are dropped, the rest of the document is taken over.
LoadFromString(doc) ==
    [contexts       |-> { e \in doc.contexts : ValidEntry(e) },
     currentContext |-> doc.current_context,
     preferences    |-> doc.preferences]

\* KubeConfig.exportConfig()
ExportConfig(kc) ==
    [contexts        |-> kc.contexts,
     current_context |-> kc.currentContext,
     preferences     |-> kc.preferences]

----------------------------------------------------------------------------
(* utils/kubeConfigCompare *)

kcTextChanged(kc1, kc2) == ExportConfig(kc1) # ExportConfig(kc2)

kcContextsListChanged(kc1, kc2) == kc1.contexts # kc2.contexts

kcCurrentContextChanged(kc1, kc2) == kc1.currentContext # kc2.currentContext

----------------------------------------------------------------------------
(* Results of invokeKubectlCommand: undefined, or {code, stdout, stderr} *)

UndefinedResult == [defined |-> FALSE, code |-> 0, stdout |-> EmptyDoc]

ShellResults ==
    {UndefinedResult}
    \cup { [defined |-> TRUE, code |-> 1, stdout |-> EmptyDoc] }
    \cup { [defined |-> TRUE, code |-> 0, stdout |-> d] : d \in ConfigDocs }

\* configShellResult?.code !== 0
ShellFailedIgnoresUndefined(r) == r.defined /\ r.code # 0
ShellFailed(r) == ~r.defined \/ r.code # 0

----------------------------------------------------------------------------
(* kubeconfigChanged and its helpers *)

\* currentContextExists()
currentContextExists(kc) ==
    \E e \in kc.contexts : e.name = kc.currentContext

\* kubeConfig.loadFromString(newKubeConfig.exportConfig(), ...): one
\* synchronous call that replaces every field of the global object.
CommitMergesContexts(old, new) == [old EXCEPT !.contexts = new.contexts]
CommitKubeConfig(old, new) == LoadFromString(ExportConfig(new))

\* if (!currentContextExists()) kubeConfigState = NoContextSelected
WritesAfterCommit(kc) ==
    IF currentContextExists(kc) THEN <<>> ELSE <<"NoContextSelected">>

\* if (contextChanged) { setVSCodeContext(..., false) x 2 }
FlagAfterChange(contextChanged, flag) ==
    IF contextChanged THEN FALSE ELSE flag

\* the reloads kubeconfigChanged calls, in call order
DispatchIgnoresForce(contextChanged, contextsListChanged, forceReloadResourceKinds) ==
    IF contextChanged
    THEN <<"reloadClustersTreeView", "loadApiResources">>
    ELSE IF contextsListChanged
         THEN <<"reloadClustersTreeView">>
         ELSE <<>>
Dispatch(contextChanged, contextsListChanged, forceReloadResourceKinds) ==
    IF contextChanged \/ forceReloadResourceKinds
    THEN <<"reloadClustersTreeView", "loadApiResources">>
    ELSE IF contextsListChanged
         THEN <<"reloadClustersTreeView">>
         ELSE <<>>

\* else if (forceReloadResourceKinds) loadApiResources()
UnchangedDispatchAlways(forceReloadResourceKinds) == <<"loadApiResources">>
UnchangedDispatch(forceReloadResourceKinds) ==
    IF forceReloadResourceKinds THEN <<"loadApiResources">> ELSE <<>>

\* Each reload function runs synchronously up to its first await and reads
\* the global kubeConfig as it stands when it is called.
Seen(calls, kc) == [k \in 1..Len(calls) |-> [call |-> calls[k], kubeConfig |-> kc]]

CallNames(log) == [k \in 1..Len(log) |-> log[k].call]

----------------------------------------------------------------------------
(* The sync controller *)

NodeIdle ==
    /\ children = <<>>
    /\ collapsibleState = "None"
    /\ nodeName = "flux-system"
    /\ icon = "undefined"
    /\ label = "flux-system"
    /\ labelled = "no"

\* The module as loaded: no call running, kubeConfigState = Loading,
\* kubeConfig = new k8s.KubeConfig().
SyncIdle ==
    /\ pc = [i \in Calls |-> "idle"]
    /\ force = [i \in Calls |-> FALSE]
    /\ kubeConfigState = "Loading"
    /\ kubeConfig = NewKubeConfig
    /\ clusterUnreachable = FALSE
    /\ gitOpsNotEnabled = FALSE
    /\ stateWrites = <<>>
    /\ reloads = <<>>
    /\ errorShown = FALSE
    /\ resumed = <<>>
    /\ fetchOrder = <<>>
    /\ stale = {}
    /\ fresh = <<>>
    /\ staleReturned = FALSE

\* No object has been handed to makeTreeNode.
RegistryIdle ==
    /\ object = [kindDefined |-> FALSE, kind |-> "", name |-> ""]
    /\ made = [outcome |-> "pending", variant |-> ""]

\* setCurrentContext has not been called.
ContextIdle ==
    setContext = [pc |-> "idle", contextName |-> "", invoked |-> FALSE,
                  result |-> [defined |-> FALSE, code |-> 0, stderr |-> ""],
                  returned |-> "pending"]

Init == SyncIdle /\ NodeIdle /\ RegistryIdle /\ ContextIdle

\* Position of slot i in fetchOrder.
FetchPosition(i) == CHOOSE k \in 1..Len(fetchOrder) : fetchOrder[k] = i

\* What a fetch that returned r gives the cycle to commit: line 36 decides
\* failure, lines 44-45 parse the text of a successful fetch.
FetchOutcome(r) ==
    IF ShellFailed(r)
    THEN [failed |-> TRUE, config |-> NewKubeConfig]
    ELSE [failed |-> FALSE, config |-> LoadFromString(r.stdout)]

\* The fetch of slot i returns with r: i leaves fetchOrder, and every slot
\* that started before i and still waits for its fetch has been overtaken.
\* A call that was not overtaken started after every call whose fetch
\* returned before its own.
RaceResume(i, r) ==
    /\ fetchOrder' = SelectSeq(fetchOrder, LAMBDA j : j # i)
    /\ stale' = (stale \cup { fetchOrder[k] : k \in 1..(FetchPosition(i) - 1) }) \ {i}
    /\ IF i \in stale
       THEN fresh' = fresh /\ staleReturned' = TRUE
       ELSE /\ fresh' = <<FetchOutcome(r)>>
            /\ staleReturned' = FALSE

\* await kubeconfigChanged(...) waits on a promise that is already
\* resolved: its continuation is a queued microtask, and the event loop runs
\* it before it delivers the completion of any CLI process or file read.
NoContinuationPending == \A j \in Calls : pc[j] # "changed"

\* syncKubeConfig(f) is called: runs up to the await of the CLI fetch.
SyncStartStep(i, f) ==
    /\ pc[i] = "idle"
    /\ pc' = [pc EXCEPT ![i] = "fetch"]
    /\ force' = [force EXCEPT ![i] = f]
    /\ kubeConfigState' = "Loading"
    /\ stateWrites' = <<"Loading">>
    /\ reloads' = <<>>
    /\ errorShown' = FALSE
    /\ resumed' = <<>>
    /\ UNCHANGED <<kubeConfig, clusterUnreachable, gitOpsNotEnabled>>
    /\ UNCHANGED outsideSync

\* The CLI fetch resolves with a failure: telemetry, then the await of
\* loadKubeConfigPath().
FetchFailedStep(i, r) ==
    /\ pc[i] = "fetch"
    /\ NoContinuationPending
    /\ ShellFailed(r)
    /\ pc' = [pc EXCEPT ![i] = "path"]
    /\ stateWrites' = <<>>
    /\ reloads' = <<>>
    /\ errorShown' = FALSE
    /\ resumed' = <<[result |-> r, force |-> force[i]]>>
    /\ force' = [force EXCEPT ![i] = FALSE]
    /\ UNCHANGED <<kubeConfigState, kubeConfig, clusterUnreachable, gitOpsNotEnabled>>
    /\ UNCHANGED outsideSync

\* loadKubeConfigPath() resolves: show the error, state Failed, return.
PathLoadedStep(i) ==
    /\ pc[i] = "path"
    /\ NoContinuationPending
    /\ pc' = [pc EXCEPT ![i] = "idle"]
    /\ kubeConfigState' = "Failed"
    /\ stateWrites' = <<"Failed">>
    /\ reloads' = <<>>
    /\ errorShown' = TRUE
    /\ resumed' = <<>>
    /\ UNCHANGED <<force, kubeConfig, clusterUnreachable, gitOpsNotEnabled>>
    /\ UNCHANGED outsideSync

\* The CLI fetch resolves with exit code 0 and the text differs from the
\* committed config: parse, state Loaded, then the whole of kubeconfigChanged,
\* up to the await of its promise.
FetchChangedStep(i, r) ==
    /\ pc[i] = "fetch"
    /\ NoContinuationPending
    /\ ~ShellFailed(r)
    /\ LET newKubeConfig == LoadFromString(r.stdout)
           contextsListChanged == kcContextsListChanged(kubeConfig, newKubeConfig)
           contextChanged == kcCurrentContextChanged(kubeConfig, newKubeConfig)
           committed == CommitKubeConfig(kubeConfig, newKubeConfig)
           writes == <<"Loaded">> \o WritesAfterCommit(committed)
       IN /\ kcTextChanged(kubeConfig, newKubeConfig)
          /\ kubeConfig' = committed
          /\ stateWrites' = writes
          /\ kubeConfigState' = writes[Len(writes)]
          /\ clusterUnreachable' = FlagAfterChange(contextChanged, clusterUnreachable)
          /\ gitOpsNotEnabled' = FlagAfterChange(contextChanged, gitOpsNotEnabled)
          /\ reloads' = Seen(Dispatch(contextChanged, contextsListChanged, force[i]),
                             committed)
    /\ pc' = [pc EXCEPT ![i] = "changed"]
    /\ errorShown' = FALSE
    /\ resumed' = <<[result |-> r, force |-> force[i]]>>
    /\ force' = [force EXCEPT ![i] = FALSE]
    /\ UNCHANGED outsideSync

\* The CLI fetch resolves with exit code 0 and the text is the committed
\* one: parse, state Loaded, reload the resource kinds when forced, return.
FetchUnchangedStep(i, r) ==
    /\ pc[i] = "fetch"
    /\ NoContinuationPending
    /\ ~ShellFailed(r)
    /\ LET newKubeConfig == LoadFromString(r.stdout)
       IN /\ ~kcTextChanged(kubeConfig, newKubeConfig)
          /\ reloads' = Seen(UnchangedDispatch(force[i]), kubeConfig)
    /\ pc' = [pc EXCEPT ![i] = "idle"]
    /\ kubeConfigState' = "Loaded"
    /\ stateWrites' = <<"Loaded">>
    /\ errorShown' = FALSE
    /\ resumed' = <<[result |-> r, force |-> force[i]]>>
    /\ force' = [force EXCEPT ![i] = FALSE]
    /\ UNCHANGED <<kubeConfig, clusterUnreachable, gitOpsNotEnabled>>
    /\ UNCHANGED outsideSync

\* The promise of kubeconfigChanged resolves: syncKubeConfig returns.
ChangedReturnedStep(i) ==
    /\ pc[i] = "changed"
    /\ pc' = [pc EXCEPT ![i] = "idle"]
    /\ stateWrites' = <<>>
    /\ reloads' = <<>>
    /\ errorShown' = FALSE
    /\ resumed' = <<>>
    /\ UNCHANGED <<force, kubeConfigState, kubeConfig, clusterUnreachable, gitOpsNotEnabled>>
    /\ UNCHANGED outsideSync

\* The rest of the extension marks the current cluster unreachable or
\* without GitOps: setVSCodeContext(id, true).
SetVSCodeContextTrueStep(unreachable) ==
    /\ IF unreachable
       THEN /\ ~clusterUnreachable
            /\ clusterUnreachable' = TRUE
            /\ UNCHANGED gitOpsNotEnabled
       ELSE /\ ~gitOpsNotEnabled
            /\ gitOpsNotEnabled' = TRUE
            /\ UNCHANGED clusterUnreachable
    /\ stateWrites' = <<>>
    /\ reloads' = <<>>
    /\ errorShown' = FALSE
    /\ resumed' = <<>>
    /\ UNCHANGED <<pc, force, kubeConfigState, kubeConfig>>
    /\ UNCHANGED outsideSync

\* The steps as the program takes them: it keeps no record of the order in
\* which its calls started.
SyncStart(i, f) == SyncStartStep(i, f) /\ UNCHANGED raceVars

FetchFailed(i, r) == FetchFailedStep(i, r) /\ UNCHANGED raceVars

PathLoaded(i) == PathLoadedStep(i) /\ UNCHANGED raceVars

FetchChanged(i, r) == FetchChangedStep(i, r) /\ UNCHANGED raceVars

FetchUnchanged(i, r) == FetchUnchangedStep(i, r) /\ UNCHANGED raceVars

ChangedReturned(i) == ChangedReturnedStep(i) /\ UNCHANGED raceVars

SetVSCodeContextTrue(unreachable) == SetVSCodeContextTrueStep(unreachable) /\ UNCHANGED raceVars

Next ==
    \/ \E i \in Calls, f \in BOOLEAN : SyncStart(i, f)
    \/ \E i \in Calls, r \in ShellResults : FetchFailed(i, r)
    \/ \E i \in Calls : PathLoaded(i)
    \/ \E i \in Calls, r \in ShellResults : FetchChanged(i, r)
    \/ \E i \in Calls, r \in ShellResults : FetchUnchanged(i, r)
    \/ \E i \in Calls : ChangedReturned(i)
    \/ \E u \in BOOLEAN : SetVSCodeContextTrue(u)

Spec == Init /\ [][Next]_vars

\* The same steps, observed together with the order in which the calls
\* started (fetchOrder) and the calls a later-started call has overtaken
\* (stale).
RaceSyncStart(i, f) ==
    /\ SyncStartStep(i, f)
    /\ fetchOrder' = Append(fetchOrder, i)
    /\ UNCHANGED <<stale, fresh, staleReturned>>

RaceFetchFailed(i, r) == FetchFailedStep(i, r) /\ RaceResume(i, r)

RacePathLoaded(i) == PathLoadedStep(i) /\ UNCHANGED raceVars

RaceFetchChanged(i, r) == FetchChangedStep(i, r) /\ RaceResume(i, r)

RaceFetchUnchanged(i, r) == FetchUnchangedStep(i, r) /\ RaceResume(i, r)

RaceChangedReturned(i) == ChangedReturnedStep(i) /\ UNCHANGED raceVars

RaceSetVSCodeContextTrue(unreachable) == SetVSCodeContextTrueStep(unreachable) /\ UNCHANGED raceVars

RaceNext ==
    \/ \E i \in Calls, f \in BOOLEAN : RaceSyncStart(i, f)
    \/ \E i \in Calls, r \in ShellResults : RaceFetchFailed(i, r)
    \/ \E i \in Calls : RacePathLoaded(i)
    \/ \E i \in Calls, r \in ShellResults : RaceFetchChanged(i, r)
    \/ \E i \in Calls, r \in ShellResults : RaceFetchUnchanged(i, r)
    \/ \E i \in Calls : RaceChangedReturned(i)
    \/ \E u \in BOOLEAN : RaceSetVSCodeContextTrue(u)

RaceSpec == Init /\ [][RaceNext]_vars

----------------------------------------------------------------------------
(* NamespaceNode.updateLabel *)

TreeItemCollapsibleState == {"None", "Collapsed", "Expanded"}

NamespaceNames == {"flux-system", "default"}

\* A child is a SourceNode, a WorkloadNode or a node of another class; only
\* the first two carry resourceIsReady / resourceIsProgressing.
ChildNodes ==
    [class : {"SourceNode", "WorkloadNode"},
     resourceIsReady : BOOLEAN, resourceIsProgressing : BOOLEAN]
    \cup { [class |-> "AnyResourceNode",
            resourceIsReady |-> FALSE, resourceIsProgressing |-> FALSE] }

ChildLists == UNION { [1..n -> ChildNodes] : n \in 0..MaxChildren }

\* child instanceof SourceNode || child instanceof WorkloadNode
IsSourceOrWorkload(child) == child.class \in {"SourceNode", "WorkloadNode"}

\* One pass of the for loop over this.children, from index k on.
RECURSIVE CountChildrenNoElse(_, _, _, _)
CountChildrenNoElse(cs, k, readyLength, loadingLength) ==
    IF k > Len(cs)
    THEN [readyLength |-> readyLength, loadingLength |-> loadingLength]
    ELSE IF IsSourceOrWorkload(cs[k])
         THEN CountChildrenNoElse(cs, k + 1,
                  readyLength + (IF cs[k].resourceIsReady THEN 1 ELSE 0),
                  loadingLength + (IF cs[k].resourceIsProgressing THEN 1 ELSE 0))
         ELSE CountChildrenNoElse(cs, k + 1, readyLength + 1, loadingLength)

RECURSIVE CountChildren(_, _, _, _)
CountChildren(cs, k, readyLength, loadingLength) ==
    IF k > Len(cs)
    THEN [readyLength |-> readyLength, loadingLength |-> loadingLength]
    ELSE IF IsSourceOrWorkload(cs[k])
         THEN IF cs[k].resourceIsReady
              THEN CountChildren(cs, k + 1, readyLength + 1, loadingLength)
              ELSE IF cs[k].resourceIsProgressing
                   THEN CountChildren(cs, k + 1, readyLength, loadingLength + 1)
                   ELSE CountChildren(cs, k + 1, readyLength, loadingLength)
         ELSE CountChildren(cs, k + 1, readyLength + 1, loadingLength)

\* the icon branch of updateLabel
IconFor(readyLength, validLength, totalLength, withIcons) ==
    IF withIcons
    THEN IF readyLength = totalLength THEN "Success"
         ELSE IF validLength = totalLength THEN "Progressing"
         ELSE "Warning"
    ELSE "undefined"

\* the label branch of updateLabel
LabelForReadyOnly(name, state, readyLength, validLength, totalLength) ==
    IF state = "Collapsed" /\ readyLength # totalLength
    THEN name \o " (" \o ToString(readyLength) \o "/" \o ToString(totalLength) \o ")"
    ELSE name
LabelFor(name, state, readyLength, validLength, totalLength) ==
    IF state = "Collapsed"
    THEN LET lengthLabel ==
                 IF totalLength = validLength
                 THEN ToString(totalLength)
                 ELSE ToString(validLength) \o "/" \o ToString(totalLength)
         IN name \o " (" \o lengthLabel \o ")"
    ELSE name

\* A constructed NamespaceNode with its children attached, before updateLabel.
NodeInit ==
    /\ SyncIdle
    /\ RegistryIdle
    /\ ContextIdle
    /\ children \in ChildLists
    /\ collapsibleState \in TreeItemCollapsibleState
    /\ nodeName \in NamespaceNames
    /\ icon = "undefined"
    /\ label = nodeName
    /\ labelled = "no"

UpdateLabel(withIcons) ==
    /\ LET totalLength == Len(children)
           counts == CountChildren(children, 1, 0, 0)
           validLength == counts.readyLength + counts.loadingLength
       IN /\ icon' = IconFor(counts.readyLength, validLength, totalLength, withIcons)
          /\ label' = LabelFor(nodeName, collapsibleState, counts.readyLength,
                               validLength, totalLength)
    /\ labelled' = IF withIcons THEN "withIcons" ELSE "withoutIcons"
    /\ UNCHANGED <<children, collapsibleState, nodeName>>
    /\ UNCHANGED syncVars
    /\ UNCHANGED <<registryVars, setContext>>

NodeNext == \E withIcons \in BOOLEAN : UpdateLabel(withIcons)

NodeSpec == NodeInit /\ [][NodeNext]_vars

----------------------------------------------------------------------------
(* makeTreeNode and the nodeConstructors table *)

\* The own properties of the nodeConstructors object literal.
NodeConstructorKinds ==
    {"Bucket", "GitRepository", "OCIRepository", "HelmRepository", "HelmRelease",
     "Kustomization", "GitOpsTemplate", "Namespace", "Deployment", "Node", "Pod",
     "ConfigMap"}

nodeConstructors(kind) ==
    CASE kind = "Bucket"         -> "BucketNode"
      [] kind = "GitRepository"  -> "GitRepositoryNode"
      [] kind = "OCIRepository"  -> "OCIRepositoryNode"
      [] kind = "HelmRepository" -> "HelmRepositoryNode"
      [] kind = "HelmRelease"    -> "HelmReleaseNode"
      [] kind = "Kustomization"  -> "KustomizationNode"
      [] kind = "GitOpsTemplate" -> "GitOpsTemplateNode"
      [] kind = "Namespace"      -> "NamespaceNode"
      [] kind \in {"Deployment", "Node", "Pod", "ConfigMap"} -> "AnyResourceNode"

\* nodeConstructors is a plain object: a property it does not own is looked
\* up on Object.prototype.  "constructor" is the function Object, which
\* `new` accepts; the prototype's methods are functions `new` rejects, and
\* "__proto__" is Object.prototype itself, which is not callable.
ObjectPrototypeConstructors == {"constructor"}
ObjectPrototypeOthers == {"toString", "valueOf", "hasOwnProperty", "__proto__"}

\* Kinds the cluster may report that are in no table.
OtherKinds == {"Service", "Secret"}

ResourceNames == {"podinfo", "flux-system", ""}

\* The KubernetesObject values handed to makeTreeNode; kind is optional.
KubernetesObjects ==
    [kindDefined : {TRUE},
     kind : NodeConstructorKinds \cup ObjectPrototypeConstructors
            \cup ObjectPrototypeOthers \cup OtherKinds \cup {""},
     name : ResourceNames]
    \cup [kindDefined : {FALSE}, kind : {""}, name : ResourceNames]

\* nodeConstructors[object.kind as Kind]
PropertyLookup(kind) ==
    IF kind \in NodeConstructorKinds THEN "class"
    ELSE IF kind \in ObjectPrototypeConstructors THEN "Object"
    ELSE IF kind \in ObjectPrototypeOthers THEN "inherited"
    ELSE "undefined"

\* makeTreeNode(object)
MakeTreeNodeResult(o) ==
    IF ~o.kindDefined \/ o.kind = ""
    THEN [outcome |-> "undefined", variant |-> ""]
    ELSE LET constructor == PropertyLookup(o.kind)
         IN CASE constructor = "undefined" -> [outcome |-> "undefined", variant |-> ""]
              [] constructor = "class" ->
                    [outcome |-> "node", variant |-> nodeConstructors(o.kind)]
              \* new Object(object) returns its argument: not a TreeNode
              [] constructor = "Object" -> [outcome |-> "object", variant |-> ""]
              \* new on a value that is no constructor
              [] constructor = "inherited" -> [outcome |-> "TypeError", variant |-> ""]

RegistryInit ==
    /\ SyncIdle
    /\ NodeIdle
    /\ ContextIdle
    /\ object \in KubernetesObjects
    /\ made = [outcome |-> "pending", variant |-> ""]

MakeTreeNode ==
    /\ made.outcome = "pending"
    /\ made' = MakeTreeNodeResult(object)
    /\ UNCHANGED object
    /\ UNCHANGED <<syncVars, nodeVars, setContext>>

RegistryNext == MakeTreeNode

RegistrySpec == RegistryInit /\ [][RegistryNext]_vars

----------------------------------------------------------------------------
(* setCurrentContext *)

\* Results of invokeKubectlCommand('config use-context ...'): undefined, or
\* {code, stdout, stderr}.  kubectl may fail silently or warn on success.
UseContextResults ==
    { [defined |-> FALSE, code |-> 0, stderr |-> ""] }
    \cup [defined : {TRUE}, code : {0, 1},
          stderr : {"", "error: no context exists with the name"}]

\* setContextShellResult?.stderr
StderrReported(r) == r.defined /\ r.stderr # ""

\* The configs a sync cycle may have committed before the call.
CommittedConfigs == {NewKubeConfig} \cup { LoadFromString(d) : d \in ConfigDocs }

ContextInit ==
    /\ pc = [i \in Calls |-> "idle"]
    /\ force = [i \in Calls |-> FALSE]
    /\ kubeConfigState = "Loading"
    /\ kubeConfig \in CommittedConfigs
    /\ clusterUnreachable = FALSE
    /\ gitOpsNotEnabled = FALSE
    /\ stateWrites = <<>>
    /\ reloads = <<>>
    /\ errorShown = FALSE
    /\ resumed = <<>>
    /\ fetchOrder = <<>>
    /\ stale = {}
    /\ fresh = <<>>
    /\ staleReturned = FALSE
    /\ NodeIdle
    /\ RegistryIdle
    /\ ContextIdle

ContextFrame ==
    /\ UNCHANGED <<pc, force, kubeConfigState, kubeConfig, clusterUnreachable,
                   gitOpsNotEnabled, stateWrites, reloads, resumed>>
    /\ UNCHANGED raceVars
    /\ UNCHANGED <<nodeVars, registryVars>>

\* setCurrentContext(contextName) is called: returns at once when the name
\* is the current context, else runs up to the await of the CLI call.
SetCurrentContextCalled(contextName) ==
    /\ setContext.pc = "idle"
    /\ IF kubeConfig.currentContext = contextName
       THEN setContext' = [setContext EXCEPT !.pc = "done",
                                             !.contextName = contextName,
                                             !.returned = "isChanged: false"]
       ELSE setContext' = [setContext EXCEPT !.pc = "cli",
                                             !.contextName = contextName,
                                             !.invoked = TRUE]
    /\ errorShown' = FALSE
    /\ ContextFrame

\* The CLI call resolves: an error is shown and undefined returned when the
\* result carries stderr text, else {isChanged: true} is returned.
UseContextReturned(r) ==
    /\ setContext.pc = "cli"
    /\ IF StderrReported(r)
       THEN /\ errorShown' = TRUE
            /\ setContext' = [setContext EXCEPT !.pc = "done", !.result = r,
                                                !.returned = "undefined"]
       ELSE /\ errorShown' = FALSE
            /\ setContext' = [setContext EXCEPT !.pc = "done", !.result = r,
                                                !.returned = "isChanged: true"]
    /\ ContextFrame

ContextNext ==
    \/ \E n \in ContextNames : SetCurrentContextCalled(n)
    \/ \E r \in UseContextResults : UseContextReturned(r)

ContextSpec == ContextInit /\ [][ContextNext]_vars

----------------------------------------------------------------------------
(* Properties of the sync controller *)

\* The call slot i is resumed from its CLI fetch by this step.
ResumedFromFetch(i) == pc[i] = "fetch" /\ pc'[i] # "fetch"

\* C1: at most one syncKubeConfig cycle is in flight at any time.
C1_SingleCycleInFlight ==
    Cardinality({ i \in Calls : pc[i] # "idle" }) <= 1

\* C2: a cycle whose CLI fetch fails (missing result or non-zero exit code)
\* takes the failure branch, which issues no reload and leaves the committed
\* kubeconfig and both flags as they are; it ends by showing an error with
\* state Failed.
C2_FailedFetchLeavesCommittedState ==
    [][\A i \in Calls :
        /\ ( /\ ResumedFromFetch(i)
             /\ (~resumed'[1].result.defined \/ resumed'[1].result.code # 0) )
           => /\ pc'[i] = "path"
              /\ kubeConfig' = kubeConfig
              /\ clusterUnreachable' = clusterUnreachable
              /\ gitOpsNotEnabled' = gitOpsNotEnabled
              /\ reloads' = <<>>
        /\ (pc[i] = "path" /\ pc'[i] # "path")
           => /\ pc'[i] = "idle"
              /\ kubeConfigState' = "Failed"
              /\ errorShown'
              /\ kubeConfig' = kubeConfig
              /\ clusterUnreachable' = clusterUnreachable
              /\ gitOpsNotEnabled' = gitOpsNotEnabled
              /\ reloads' = <<>>
      ]_vars

\* A forced cycle got no result from the CLI while a config was committed
\* and the cluster was marked unreachable.
C2_Witness ==
    /\ \E i \in Calls : pc[i] = "path"
    /\ resumed # <<>>
    /\ resumed[1].force
    /\ ~resumed[1].result.defined
    /\ clusterUnreachable
    /\ kubeConfig # NewKubeConfig

AllowedStateChange(from, to) ==
    \/ from = to
    \/ to = "Loading"
    \/ <<from, to>> \in { <<"Loading", "Loaded">>,
                          <<"Loading", "Failed">>,
                          <<"Loaded", "NoContextSelected">> }

\* C3: every change of kubeConfigState is Loading -> Loaded,
\* Loading -> Failed, Loaded -> NoContextSelected or any state -> Loading.
C3_OnlyDocumentedStateChanges ==
    [][LET chain == <<kubeConfigState>> \o stateWrites'
       IN \A k \in 1..(Len(chain) - 1) : AllowedStateChange(chain[k], chain[k + 1])
      ]_vars

\* C4: a cycle whose fetch succeeds with a current context that is not in
\* the fetched context list ends with state NoContextSelected.
C4_MissingCurrentContextEndsNoContextSelected ==
    [][\A i \in Calls :
        ( /\ ResumedFromFetch(i)
          /\ resumed'[1].result.defined
          /\ resumed'[1].result.code = 0
          /\ ~currentContextExists(LoadFromString(resumed'[1].result.stdout)) )
        => kubeConfigState' = "NoContextSelected"
      ]_vars

\* C5: a cycle that commits a snapshot in which the previously current
\* context is no longer listed clears both flags.
C5_RemovedCurrentContextClearsFlags ==
    [][\A i \in Calls :
        ( /\ ResumedFromFetch(i)
          /\ kubeConfig' # kubeConfig
          /\ \E e \in kubeConfig.contexts : e.name = kubeConfig.currentContext
          /\ ~\E e \in kubeConfig'.contexts : e.name = kubeConfig.currentContext )
        => (~clusterUnreachable' /\ ~gitOpsNotEnabled')
      ]_vars

\* C6: a cycle that commits a changed snapshot reloads the cluster tree and
\* the resource kinds when the current context changed or the reload is
\* forced, else the cluster tree alone when the context list changed, else
\* nothing.
C6_DispatchAfterCommit ==
    [][\A i \in Calls :
        (ResumedFromFetch(i) /\ kubeConfig' # kubeConfig)
        => CallNames(reloads') =
             IF kcCurrentContextChanged(kubeConfig, kubeConfig') \/ force[i]
             THEN <<"reloadClustersTreeView", "loadApiResources">>
             ELSE IF kcContextsListChanged(kubeConfig, kubeConfig')
                  THEN <<"reloadClustersTreeView">>
                  ELSE <<>>
      ]_vars

\* An unforced cycle committed a config whose context list changed while the
\* current context kept its name: the cluster tree alone was reloaded.
C6_Witness ==
    /\ \E i \in Calls : pc[i] = "changed"
    /\ resumed # <<>>
    /\ ~resumed[1].force
    /\ CallNames(reloads) = <<"reloadClustersTreeView">>
    /\ kubeConfig = LoadFromString(resumed[1].result.stdout)

\* C7: a cycle whose fetched config is the committed one leaves the
\* committed config and both flags unchanged, never reloads the cluster
\* tree, and reloads the resource kinds exactly when it is forced.
C7_UnchangedConfigOnlyForcedReload ==
    [][\A i \in Calls :
        ( /\ ResumedFromFetch(i)
          /\ resumed'[1].result.defined
          /\ resumed'[1].result.code = 0
          /\ ExportConfig(LoadFromString(resumed'[1].result.stdout))
               = ExportConfig(kubeConfig) )
        => /\ kubeConfig' = kubeConfig
           /\ clusterUnreachable' = clusterUnreachable
           /\ gitOpsNotEnabled' = gitOpsNotEnabled
           /\ CallNames(reloads') =
                IF force[i] THEN <<"loadApiResources">> ELSE <<>>
      ]_vars

\* A forced cycle fetched the config already committed, with the cluster
\* marked unreachable: only the resource kinds were reloaded.
C7_Witness ==
    /\ resumed # <<>>
    /\ resumed[1].force
    /\ resumed[1].result.defined
    /\ resumed[1].result.code = 0
    /\ kubeConfig # NewKubeConfig
    /\ \A i \in Calls : pc[i] # "changed"
    /\ clusterUnreachable
    /\ CallNames(reloads) = <<"loadApiResources">>

\* C8: the committed kubeconfig changes only as a whole, to the parse of
\* the one fetch the committing step received, and every reload function a
\* cycle calls sees the config of that cycle's fetch.
C8_CommitIsWholesale ==
    [][ /\ kubeConfig' # kubeConfig
           => /\ resumed' # <<>>
              /\ resumed'[1].result.defined
              /\ kubeConfig' = LoadFromString(resumed'[1].result.stdout)
        /\ \A k \in 1..Len(reloads') :
              /\ resumed' # <<>>
              /\ reloads'[k].kubeConfig = LoadFromString(resumed'[1].result.stdout)
              /\ reloads'[k].kubeConfig = kubeConfig'
      ]_vars

\* A cycle committed a second config, differing from the first in both
\* context list and current context, while another cycle was suspended on
\* its fetch, and called both reload functions.
C8_Witness ==
    /\ \E i \in Calls, j \in Calls : pc[i] = "changed" /\ pc[j] = "fetch"
    /\ Len(reloads) = 2
    /\ kubeConfig.contexts # {}
    /\ currentContextExists(kubeConfig)
    /\ kubeConfigState = "Loaded"
    /\ gitOpsNotEnabled

----------------------------------------------------------------------------
(* Properties of NamespaceNode.updateLabel *)

NumReady(cs) ==
    Cardinality({ k \in 1..Len(cs) : IsSourceOrWorkload(cs[k]) /\ cs[k].resourceIsReady })
    + Cardinality({ k \in 1..Len(cs) : ~IsSourceOrWorkload(cs[k]) })

NumProgressing(cs) ==
    Cardinality({ k \in 1..Len(cs) :
                    /\ IsSourceOrWorkload(cs[k])
                    /\ ~cs[k].resourceIsReady
                    /\ cs[k].resourceIsProgressing })

\* C9: updateLabel(withIcons = true) sets Success when ready = total, else
\* Progressing when ready + progressing = total, else Warning, with ready
\* and progressing counted as stated; untracked children alone (or no
\* children) give Success, and no child is counted twice.
C9_IconFromChildren ==
    labelled = "withIcons" =>
        LET total == Len(children)
            ready == NumReady(children)
            progressing == NumProgressing(children)
        IN /\ icon = IF ready = total THEN "Success"
                     ELSE IF ready + progressing = total THEN "Progressing"
                     ELSE "Warning"
           /\ ready + progressing <= total
           /\ (\A k \in 1..total : ~IsSourceOrWorkload(children[k])) => icon = "Success"
           /\ icon # "Success"
                => \E k \in 1..total : /\ IsSourceOrWorkload(children[k])
                                       /\ ~children[k].resourceIsReady

\* A node with an untracked child, a child with both flags set and a child
\* with neither got Warning.
C9_Witness ==
    /\ labelled = "withIcons"
    /\ icon = "Warning"
    /\ \E k \in 1..Len(children) : ~IsSourceOrWorkload(children[k])
    /\ \E k \in 1..Len(children) :
          children[k].resourceIsReady /\ children[k].resourceIsProgressing
    /\ \E k \in 1..Len(children) :
          /\ IsSourceOrWorkload(children[k])
          /\ ~children[k].resourceIsReady
          /\ ~children[k].resourceIsProgressing

\* C10 as stated: the label is "name (ready/total)" when the node is
\* collapsed and not all children are ready, and the bare name otherwise.
C10_LabelAsStated ==
    labelled # "no" =>
        LET total == Len(children)
            ready == NumReady(children)
        IN label = IF collapsibleState = "Collapsed" /\ ready # total
                   THEN nodeName \o " (" \o ToString(ready) \o "/"
                                 \o ToString(total) \o ")"
                   ELSE nodeName

\* C10 amended: a collapsed node is labelled "name (total)" when
\* ready + progressing = total and "name (valid/total)" with
\* valid = ready + progressing otherwise; a node that is not collapsed is
\* labelled with the bare name.
C10_LabelAmended ==
    labelled # "no" =>
        LET total == Len(children)
            valid == NumReady(children) + NumProgressing(children)
        IN label = IF collapsibleState = "Collapsed"
                   THEN IF valid = total
                        THEN nodeName \o " (" \o ToString(total) \o ")"
                        ELSE nodeName \o " (" \o ToString(valid) \o "/"
                                      \o ToString(total) \o ")"
                   ELSE nodeName

\* A collapsed node with a ready, a progressing and a failed child was
\* labelled.
C10_Witness ==
    /\ labelled # "no"
    /\ collapsibleState = "Collapsed"
    /\ Len(children) = 3
    /\ NumReady(children) = 1
    /\ NumProgressing(children) = 1
    /\ label = nodeName \o " (2/3)"

----------------------------------------------------------------------------
(* Properties of makeTreeNode *)

\* C11: makeTreeNode returns undefined, without throwing, for an object
\* whose kind is missing, empty or not in the table of supported kinds, and
\* a node of the mapped variant for a kind in the table.
C11_MakeTreeNodeTotal ==
    made.outcome # "pending" =>
        IF object.kindDefined /\ object.kind \in NodeConstructorKinds
        THEN made = [outcome |-> "node", variant |-> nodeConstructors(object.kind)]
        ELSE made = [outcome |-> "undefined", variant |-> ""]

----------------------------------------------------------------------------
(* Properties of setCurrentContext *)

\* C12: setCurrentContext(name) returns {isChanged: false} without invoking
\* the CLI when name is the current context; otherwise it shows an error and
\* returns undefined whenever the CLI result is missing, has a non-zero exit
\* code or has stderr text, and returns {isChanged: true} only after a
\* successful CLI call.  It never modifies the committed kubeconfig.
C12_SetCurrentContextReportsFailure ==
    [][ /\ kubeConfig' = kubeConfig
        /\ (setContext.pc # "done" /\ setContext'.pc = "done")
           => LET c == setContext'
                  failed == \/ ~c.result.defined
                            \/ c.result.code # 0
                            \/ c.result.stderr # ""
              IN IF kubeConfig.currentContext = c.contextName
                 THEN c.returned = "isChanged: false" /\ ~c.invoked
                 ELSE /\ c.invoked
                      /\ failed => (c.returned = "undefined" /\ errorShown')
                      /\ ~failed => c.returned = "isChanged: true"
      ]_vars

----------------------------------------------------------------------------
(* Properties of overlapping sync cycles *)

\* C13: when the fetch of a later-started call returned before the fetch of
\* an earlier-started one, then once all calls have completed the committed
\* kubeconfig and kubeConfigState are those of the later-started call's
\* fetch.
C13_StaleFetchNeverOverwrites ==
    ( /\ \A i \in Calls : pc[i] = "idle"
      /\ staleReturned )
    => IF fresh[1].failed
       THEN kubeConfigState = "Failed"
       ELSE /\ kubeConfig = fresh[1].config
            /\ kubeConfigState \in {"Loaded", "NoContextSelected"}

====
